---- MODULE Spec2Model ----
(***************************************************************************)
(* Model of src/server.py: the lobby / game-slot coordination server.      *)
(*                                                                         *)
(* One process per websocket connection (websocket_endpoint).  A step of   *)
(* a process is the synchronous code it runs between two suspension        *)
(* points: a suspension point is the wait for app.state.lock, the wait for *)
(* the next inbound message, or an awaited send.  An awaited send hands    *)
(* the message to the handle and may then suspend, so a step ends right    *)
(* after a send.  The sends of one broadcast() call are taken in one step. *)
(***************************************************************************)
EXTENDS Integers, Sequences, FiniteSets, TLC

\* ------------------------------------------------------------------ bounds
NumConns == 3      \* websocket connections ever opened
NumUids  == 2      \* identities in play
MaxMsgs  == 5      \* inbound requests handled in one run

Conns == 1..NumConns
Uids  == 1..NumUids

NoConn == 0        \* "ws": None
NoUid  == 0        \* no uid query parameter
None   == -1       \* "slot_idx": None

VARIABLES
    players,       \* app.state.players: uid -> record
    slots,         \* app.state.slots: sequence of uids (position i+1 is index i)
    game_started,  \* app.state.game_started
    lock,          \* app.state.lock: the connection whose handler holds it
    pc,            \* where each connection's handler is
    uid,           \* the local variable uid of each handler
    conn_uid,      \* the identity acknowledged to the connection at open
    open,          \* the transport of the connection is open
    hist,          \* the messages delivered on a handle while its open sequence runs
    ev,            \* the step just taken: who, what, and what it sent
    nmsg,          \* requests handled so far
    taken_over     \* open connections whose identity a newer connection resolved

vars == <<players, slots, game_started, lock, pc, uid, conn_uid, open, hist, ev, nmsg, taken_over>>

\* ------------------------------------------------------------------ helpers
slot_label_zero_based(idx) == [n |-> idx, suffix |-> "P"]

slot_label(idx) == [n |-> idx + 1, suffix |-> "P"]

NoLabel == [n |-> 0, suffix |-> ""]

\* an outbound message {"type": type, key: value}
Msg(type) == [type |-> type, user_id |-> NoUid, slot |-> NoLabel, slots_info |-> <<>>, count |-> 0]

NoMsg == Msg("")

SlotsInfo(s) == [i \in 1..Len(s) |-> [slot |-> slot_label(i - 1), uid |-> s[i]]]

SlotsMsg(s) == [Msg("SLOTS") EXCEPT !.slots_info = SlotsInfo(s)]

\* the handles broadcast() sends to: records with a handle and connected
Recipients(pl) == {pl[u].ws : u \in {v \in DOMAIN pl : pl[v].ws # NoConn /\ pl[v].connected}}

register_player(pl, u, ws, connect, game_area, watch_area, slot) ==
    [v \in DOMAIN pl \cup {u} |->
        IF v = u
        THEN [ws |-> ws, connected |-> connect, in_game_area |-> game_area,
              in_watch_area |-> watch_area, slot_idx |-> slot]
        ELSE pl[v]]

\* list.pop(idx) inside try/except: an index out of range removes nothing
Pop(s, idx) ==
    IF idx >= 0 /\ idx < Len(s)
    THEN [i \in 1..(Len(s) - 1) |-> IF i <= idx THEN s[i] ELSE s[i + 1]]
    ELSE s

RenumberNothing(pl, s) == pl

\* for new_idx, uid in enumerate(slots): players[uid]["slot_idx"] = new_idx
Renumber(pl, s) ==
    [u \in DOMAIN pl |->
        IF \E i \in 1..Len(s) : s[i] = u
        THEN [pl[u] EXCEPT !.slot_idx =
                 (CHOOSE i \in 1..Len(s) : s[i] = u /\ \A j \in (i + 1)..Len(s) : s[j] # u) - 1]
        ELSE pl[u]]

\* the loop variable of the renumbering loop is the handler's own uid
LoopUid(u, s) == IF Len(s) = 0 THEN u ELSE s[Len(s)]

\* the handler of the handle has not reached its receive loop
Opening(h) == pc[h] \in {"assigned", "listing"}

\* send_safe: the message reaches the handle unless its transport is closed
Deliver(to, type, from) ==
    hist' = [h \in Conns |->
                IF h \in to /\ open[h] /\ Opening(h)
                THEN Append(hist[h], [type |-> type, own |-> (h = from)])
                ELSE hist[h]]

Event(c, op, kind, to, msg) == [conn |-> c, op |-> op, kind |-> kind, to |-> to, msg |-> msg]

\* a step that neither handles a request nor sends
Quiet == Event(NoConn, "quiet", "none", {}, NoMsg)

AcquireWithoutWaiting(c) == lock' = c

\* async with app.state.lock
Acquire(c) == lock = NoConn /\ lock' = c

\* a handler that runs from acquire to release without suspending
AcquireRelease(c) == lock = NoConn /\ lock' = lock

\* p = app.state.players.get(uid)
P(c) == players[uid[c]]

\* ------------------------------------------------------------------ Init
Init ==
    /\ players = <<>>
    /\ slots = <<>>
    /\ game_started = FALSE
    /\ lock = NoConn
    /\ pc = [c \in Conns |-> "idle"]
    /\ uid = [c \in Conns |-> NoUid]
    /\ conn_uid = [c \in Conns |-> NoUid]
    /\ open = [c \in Conns |-> FALSE]
    /\ hist = [c \in Conns |-> <<>>]
    /\ ev = Quiet
    /\ nmsg = 0
    /\ taken_over = {}

\* ------------------------------------------------------------------ connection open
\* uuid.uuid4(): an identity never issued before
FreshUid == CHOOSE u \in Uids \ DOMAIN players : \A v \in Uids \ DOMAIN players : u <= v

ResolveAlwaysRegisters(pl, u, c) == register_player(pl, u, c, TRUE, FALSE, FALSE, None)

\* identity resolution: new identity, unknown supplied identity, or reconnect
Resolve(pl, u, c) ==
    IF u \notin DOMAIN pl
    THEN register_player(pl, u, c, TRUE, FALSE, FALSE, None)
    ELSE [pl EXCEPT ![u].ws = c, ![u].connected = TRUE]

\* the identities a client can present: none, one issued before, or one the
\* server has never seen (identities are opaque: the least unused stands for any)
Queries == {NoUid} \cup DOMAIN players \cup (IF Uids \ DOMAIN players = {} THEN {} ELSE {FreshUid})

\* accept, take the lock, resolve the identity, send ASSIGN_ID
\* (connection handles are numbered in the order they are accepted)
Open(c, q) ==
    /\ pc[c] = "idle"
    /\ \A d \in Conns : d < c => pc[d] # "idle"
    /\ q = NoUid => Uids \ DOMAIN players # {}
    /\ Acquire(c)
    /\ LET u == IF q = NoUid THEN FreshUid ELSE q
       IN /\ players' = Resolve(players, u, c)
          /\ uid' = [uid EXCEPT ![c] = u]
          /\ conn_uid' = [conn_uid EXCEPT ![c] = u]
          /\ ev' = Event(c, "open", "direct", {c}, [Msg("ASSIGN_ID") EXCEPT !.user_id = u])
    /\ open' = [open EXCEPT ![c] = TRUE]
    /\ hist' = [hist EXCEPT ![c] = <<[type |-> "ASSIGN_ID", own |-> TRUE]>>]
    /\ pc' = [pc EXCEPT ![c] = "assigned"]
    /\ taken_over' = taken_over \cup
           {d \in Conns : open[d] /\ conn_uid[d] = (IF q = NoUid THEN FreshUid ELSE q)}
    /\ UNCHANGED <<slots, game_started, nmsg>>

\* leave the lock, send CONNECTED
OpenConnected(c) ==
    /\ pc[c] = "assigned"
    /\ lock' = NoConn
    /\ Deliver({c}, "CONNECTED", c)
    /\ ev' = Event(c, "connected", "direct", {c}, Msg("CONNECTED"))
    /\ pc' = [pc EXCEPT ![c] = "listing"]
    /\ UNCHANGED <<players, slots, game_started, uid, conn_uid, open, nmsg, taken_over>>

\* the initial notify_slots_update(), outside the lock
OpenListing(c) ==
    /\ pc[c] = "listing"
    /\ hist' = [h \in Conns |->
                   IF h = c THEN <<>>
                   ELSE IF h \in Recipients(players) /\ open[h] /\ Opening(h)
                        THEN Append(hist[h], [type |-> "SLOTS", own |-> FALSE])
                        ELSE hist[h]]
    /\ ev' = Event(c, "listing", "broadcast", Recipients(players), SlotsMsg(slots))
    /\ pc' = [pc EXCEPT ![c] = "recv"]
    /\ UNCHANGED <<players, slots, game_started, lock, uid, conn_uid, open, nmsg, taken_over>>

\* the client, or the network, closes the transport
Drop(c) ==
    /\ open[c]
    /\ pc[c] \in {"assigned", "listing", "recv", "notify", "unlock"}
    /\ open' = [open EXCEPT ![c] = FALSE]
    /\ ev' = Quiet
    /\ UNCHANGED <<players, slots, game_started, lock, pc, uid, conn_uid, hist, nmsg, taken_over>>

\* ------------------------------------------------------------------ requests
\* receive_text() returns a request and the handler takes the lock
Receive(c) ==
    /\ pc[c] = "recv"
    /\ open[c]
    /\ nmsg < MaxMsgs
    /\ nmsg' = nmsg + 1

\* a direct reply on the handler's own websocket, then suspend holding the lock
Reply(c, op, msg, next) ==
    /\ Deliver({c}, msg.type, c)
    /\ ev' = Event(c, op, "direct", {c}, msg)
    /\ pc' = [pc EXCEPT ![c] = next]

BroadcastStopsAtFailure(c, op, pl, msg, next) ==
    LET bad  == {h \in Recipients(pl) : ~open[h]}
        sent == {h \in Recipients(pl) : \A b \in bad : h <= b}
    IN /\ Deliver(sent, msg.type, c)
       /\ ev' = Event(c, op, "broadcast", sent, msg)
       /\ pc' = [pc EXCEPT ![c] = IF bad = {} THEN next ELSE "failed"]

\* broadcast(type, key, msg)
Broadcast(c, op, pl, msg, next) ==
    /\ Deliver(Recipients(pl), msg.type, c)
    /\ ev' = Event(c, op, "broadcast", Recipients(pl), msg)
    /\ pc' = [pc EXCEPT ![c] = next]

Ping(c) ==
    /\ Receive(c)
    /\ Acquire(c)
    /\ Reply(c, "PING", Msg("PONG"), "unlock")
    /\ UNCHANGED <<players, slots, game_started, uid, conn_uid, open, taken_over>>

EnterSpectate(c) ==
    /\ Receive(c)
    /\ Acquire(c)
    /\ players' = [players EXCEPT ![uid[c]].in_game_area = FALSE,
                                  ![uid[c]].in_watch_area = TRUE,
                                  ![uid[c]].slot_idx = None]
    /\ Reply(c, "ENTER_SPECTATE", Msg("ENTERED_SPECTATE"), "unlock")
    /\ UNCHANGED <<slots, game_started, uid, conn_uid, open, taken_over>>

\* ENTER_GAME by a record that has a slot index, before or after start
EnterGameRejoin(c) ==
    /\ Receive(c)
    /\ P(c).slot_idx # None
    /\ Acquire(c)
    /\ players' = [players EXCEPT ![uid[c]].in_game_area = TRUE,
                                  ![uid[c]].in_watch_area = FALSE]
    /\ Reply(c, "ENTER_GAME", [Msg("JOINED") EXCEPT !.slot = slot_label(P(c).slot_idx)], "unlock")
    /\ UNCHANGED <<slots, game_started, uid, conn_uid, open, taken_over>>

\* ENTER_GAME after start by a record without a slot index
EnterGameOnlySpectator(c) ==
    /\ Receive(c)
    /\ game_started
    /\ P(c).slot_idx = None
    /\ Acquire(c)
    /\ players' = [players EXCEPT ![uid[c]].in_game_area = FALSE,
                                  ![uid[c]].in_watch_area = TRUE,
                                  ![uid[c]].slot_idx = None]
    /\ Reply(c, "ENTER_GAME", Msg("ONLY_SPECTATOR"), "unlock")
    /\ UNCHANGED <<slots, game_started, uid, conn_uid, open, taken_over>>

\* ENTER_GAME before start by a record without a slot index: append a slot
EnterGameNew(c) ==
    /\ Receive(c)
    /\ ~game_started
    /\ P(c).slot_idx = None
    /\ Acquire(c)
    /\ slots' = Append(slots, uid[c])
    /\ players' = [players EXCEPT ![uid[c]].slot_idx = Len(slots') - 1,
                                  ![uid[c]].in_game_area = TRUE,
                                  ![uid[c]].in_watch_area = FALSE]
    /\ Reply(c, "ENTER_GAME", [Msg("JOINED") EXCEPT !.slot = slot_label(Len(slots') - 1)], "notify")
    /\ UNCHANGED <<game_started, uid, conn_uid, open, taken_over>>

\* the notify_slots_update() that follows a slot append
Notify(c) ==
    /\ pc[c] = "notify"
    /\ Broadcast(c, "notify", players, SlotsMsg(slots), "unlock")
    /\ UNCHANGED <<players, slots, game_started, lock, uid, conn_uid, open, nmsg, taken_over>>

\* LEAVE_GAME before start by a record in the game area with a slot index
LeaveGameRelease(c) ==
    /\ Receive(c)
    /\ P(c).in_game_area /\ P(c).slot_idx # None
    /\ ~game_started
    /\ Acquire(c)
    /\ slots' = Pop(slots, P(c).slot_idx)
    /\ players' = Renumber([players EXCEPT ![uid[c]].slot_idx = None,
                                           ![uid[c]].in_game_area = FALSE], slots')
    /\ uid' = [uid EXCEPT ![c] = LoopUid(uid[c], slots')]
    /\ Broadcast(c, "LEAVE_GAME", players', SlotsMsg(slots'), "unlock")
    /\ UNCHANGED <<game_started, conn_uid, open, taken_over>>

LeaveGameStartedReleases(c) ==
    /\ Receive(c)
    /\ P(c).in_game_area /\ P(c).slot_idx # None
    /\ game_started
    /\ Acquire(c)
    /\ slots' = Pop(slots, P(c).slot_idx)
    /\ players' = Renumber([players EXCEPT ![uid[c]].slot_idx = None,
                                           ![uid[c]].in_game_area = FALSE], slots')
    /\ uid' = [uid EXCEPT ![c] = LoopUid(uid[c], slots')]
    /\ Broadcast(c, "LEAVE_GAME", players', SlotsMsg(slots'), "unlock")
    /\ UNCHANGED <<game_started, conn_uid, open, taken_over>>

\* LEAVE_GAME after start by a record in the game area with a slot index
LeaveGameStarted(c) ==
    /\ Receive(c)
    /\ P(c).in_game_area /\ P(c).slot_idx # None
    /\ game_started
    /\ Acquire(c)
    /\ players' = [players EXCEPT ![uid[c]].in_game_area = FALSE,
                                  ![uid[c]].connected = FALSE,
                                  ![uid[c]].ws = NoConn]
    /\ Broadcast(c, "LEAVE_GAME", players', [Msg("PLAYER_LEFT") EXCEPT !.user_id = uid[c]], "unlock")
    /\ UNCHANGED <<slots, game_started, uid, conn_uid, open, taken_over>>

\* LEAVE_GAME by a record that is not in the game area or has no slot index
LeaveGameNoop(c) ==
    /\ Receive(c)
    /\ ~(P(c).in_game_area /\ P(c).slot_idx # None)
    /\ AcquireRelease(c)
    /\ players' = [players EXCEPT ![uid[c]].in_game_area = FALSE]
    /\ ev' = Event(c, "LEAVE_GAME", "none", {}, NoMsg)
    /\ UNCHANGED <<slots, game_started, pc, uid, conn_uid, open, hist, taken_over>>

StartCondition(c) == P(c).slot_idx = 0 /\ P(c).in_game_area /\ ~game_started

\* START granted: the flag is set, then broadcast() is called with one argument
\* where it takes three; the TypeError leaves the lock and ends the handler,
\* and the server closes the connection
StartOk(c) ==
    /\ Receive(c)
    /\ StartCondition(c)
    /\ AcquireRelease(c)
    /\ game_started' = TRUE
    /\ pc' = [pc EXCEPT ![c] = "failed"]
    /\ open' = [open EXCEPT ![c] = FALSE]
    /\ ev' = Event(c, "START", "none", {}, NoMsg)
    /\ UNCHANGED <<players, slots, uid, conn_uid, hist, taken_over>>

StartDenied(c) ==
    /\ Receive(c)
    /\ ~StartCondition(c)
    /\ Acquire(c)
    /\ Reply(c, "START", Msg("START_DENIED"), "unlock")
    /\ UNCHANGED <<players, slots, game_started, uid, conn_uid, open, taken_over>>

Echo(c) ==
    /\ Receive(c)
    /\ Acquire(c)
    /\ Reply(c, "OTHER", Msg("ECHO"), "unlock")
    /\ UNCHANGED <<players, slots, game_started, uid, conn_uid, open, taken_over>>

\* the handler leaves the lock and goes back to receive_text()
Unlock(c) ==
    /\ pc[c] = "unlock"
    /\ lock' = NoConn
    /\ pc' = [pc EXCEPT ![c] = "recv"]
    /\ ev' = Quiet
    /\ UNCHANGED <<players, slots, game_started, uid, conn_uid, open, hist, nmsg, taken_over>>

\* ------------------------------------------------------------------ disconnect
\* receive_text() raises WebSocketDisconnect
Disconnected(c) == pc[c] = "recv" /\ ~open[c]

\* variant: the flag is cleared but the handle stays in the record
UnplugKeepsHandle(pl, u) == [pl EXCEPT ![u].connected = FALSE]

Unplug(pl, u) == [pl EXCEPT ![u].connected = FALSE, ![u].ws = NoConn]

\* before start, the record has a slot index: release the slot, renumber, notify
DisconnectRelease(c) ==
    /\ Disconnected(c)
    /\ ~game_started
    /\ P(c).slot_idx # None
    /\ Acquire(c)
    /\ slots' = Pop(slots, P(c).slot_idx)
    /\ players' = Renumber([Unplug(players, uid[c]) EXCEPT ![uid[c]].slot_idx = None,
                                                           ![uid[c]].in_game_area = FALSE,
                                                           ![uid[c]].in_watch_area = FALSE], slots')
    /\ uid' = [uid EXCEPT ![c] = LoopUid(uid[c], slots')]
    /\ Broadcast(c, "disconnect", players', SlotsMsg(slots'), "return")
    /\ UNCHANGED <<game_started, conn_uid, open, nmsg, taken_over>>

\* before start, no slot index: only the connection flags change
DisconnectNoSlot(c) ==
    /\ Disconnected(c)
    /\ ~game_started
    /\ P(c).slot_idx = None
    /\ AcquireRelease(c)
    /\ players' = Unplug(players, uid[c])
    /\ pc' = [pc EXCEPT ![c] = "closed"]
    /\ ev' = Event(c, "disconnect", "none", {}, NoMsg)
    /\ UNCHANGED <<slots, game_started, uid, conn_uid, open, hist, nmsg, taken_over>>

DisconnectStartedResets(c) ==
    /\ Disconnected(c)
    /\ game_started
    /\ Acquire(c)
    /\ players' = Unplug(players, uid[c])
    /\ game_started' = (\E u \in DOMAIN players' : players'[u].connected)
    /\ Broadcast(c, "disconnect", players', [Msg("PLAYER_DISCONNECTED") EXCEPT !.user_id = uid[c]], "return")
    /\ UNCHANGED <<slots, uid, conn_uid, open, nmsg, taken_over>>

\* after start: the slot is kept, PLAYER_DISCONNECTED is broadcast
DisconnectStarted(c) ==
    /\ Disconnected(c)
    /\ game_started
    /\ Acquire(c)
    /\ players' = Unplug(players, uid[c])
    /\ Broadcast(c, "disconnect", players', [Msg("PLAYER_DISCONNECTED") EXCEPT !.user_id = uid[c]], "return")
    /\ UNCHANGED <<slots, game_started, uid, conn_uid, open, nmsg, taken_over>>

\* the disconnect handler leaves the lock and returns
Return(c) ==
    /\ pc[c] = "return"
    /\ lock' = NoConn
    /\ pc' = [pc EXCEPT ![c] = "closed"]
    /\ ev' = Quiet
    /\ UNCHANGED <<players, slots, game_started, uid, conn_uid, open, hist, nmsg, taken_over>>

\* ------------------------------------------------------------------ specification
Next ==
    \E c \in Conns :
        \/ \E q \in Queries : Open(c, q)
        \/ OpenConnected(c)
        \/ OpenListing(c)
        \/ Drop(c)
        \/ Ping(c)
        \/ EnterSpectate(c)
        \/ EnterGameRejoin(c)
        \/ EnterGameOnlySpectator(c)
        \/ EnterGameNew(c)
        \/ Notify(c)
        \/ LeaveGameRelease(c)
        \/ LeaveGameStarted(c)
        \/ LeaveGameNoop(c)
        \/ StartOk(c)
        \/ StartDenied(c)
        \/ Echo(c)
        \/ Unlock(c)
        \/ DisconnectRelease(c)
        \/ DisconnectNoSlot(c)
        \/ DisconnectStarted(c)
        \/ Return(c)

Spec == Init /\ [][Next]_vars

\* ------------------------------------------------------------------ properties
\* the handler whose step was just taken, and the record it addressed
Actor == ev'.conn

Same3(a, b) ==
    /\ a.slot_idx = b.slot_idx
    /\ a.in_game_area = b.in_game_area
    /\ a.in_watch_area = b.in_watch_area

\* C1: whenever no handler holds the lock, the record of slots[i] has
\* slot_idx = i, for every index i of the slot table.
C1_SlotIndexMatchesTable ==
    lock = NoConn => \A i \in 1..Len(slots) : players[slots[i]].slot_idx = i - 1

\* C2: game_started turns true only in a step handling START on a connection
\* whose own acknowledged identity is slots[0] and is in the game area.
C2_StartOnlyBySlotZero ==
    [][(~game_started /\ game_started') =>
          /\ ev'.op = "START"
          /\ Len(slots) > 0
          /\ slots[1] = conn_uid[Actor]
          /\ players[conn_uid[Actor]].in_game_area]_vars

\* C3: game_started is monotonic: once true, it is true in every later state.
C3_GameStartedMonotonic == [][game_started => game_started']_vars

\* every connection has ended and every record is disconnected, after start
C3_Witness ==
    /\ game_started
    /\ \A c \in Conns : pc[c] \in {"closed", "failed"}
    /\ \A u \in DOMAIN players : ~players[u].connected

\* C4: after start, a LEAVE_GAME request or a disconnection changes neither
\* the slot table nor any record's slot_idx.
C4_PostStartKeepsSlots ==
    [][(game_started /\ ev'.op \in {"LEAVE_GAME", "disconnect"}) =>
          /\ slots' = slots
          /\ \A u \in DOMAIN players : players'[u].slot_idx = players[u].slot_idx]_vars

\* after start, a slot holder that had left the game area is disconnected
C4_Witness ==
    /\ game_started
    /\ ev.op = "disconnect"
    /\ ev.msg.type = "PLAYER_DISCONNECTED"
    /\ LET p == players[ev.msg.user_id]
       IN /\ p.slot_idx # None
          /\ ~p.in_game_area
          /\ p.slot_idx < Len(slots)
          /\ slots[p.slot_idx + 1] = ev.msg.user_id

\* C5: a START that succeeds sets game_started, sends a game-start notice
\* carrying the slot count to every connected record with a handle, and the
\* requesting connection's receive loop goes on.
C5_StartBroadcastsAndContinues ==
    [][(ev'.op = "START" /\ ~game_started /\ game_started') =>
          /\ ev'.kind = "broadcast"
          /\ ev'.msg.type = "GAME_START"
          /\ ev'.msg.count = Len(slots)
          /\ ev'.to = Recipients(players')
          /\ pc'[Actor] \in {"unlock", "recv"}]_vars

\* the step is the disconnect handling of a connection
IsDisconnect == ev'.op = "disconnect"

\* the step is the opening of a connection that presents a known identity
IsReconnect == ev'.op = "open" /\ uid'[Actor] \in DOMAIN players

\* C6 as stated: disconnection and reconnection leave slot_idx, in_game_area
\* and in_watch_area of the identity as they were, before or after start.
C6_DisconnectReconnectPreserves ==
    [][(IsDisconnect \/ IsReconnect) =>
          \A u \in DOMAIN players : Same3(players[u], players'[u])]_vars

\* C6 amended: a reconnection leaves the three fields of every record as they
\* were; so does a disconnect handling after start, or before start on a
\* record without a slot index; before start on a record with a slot index it
\* releases that slot and clears both area flags of the record.
C6_ReconnectPreserves ==
    [][/\ IsReconnect => \A u \in DOMAIN players : Same3(players[u], players'[u])
       /\ (IsDisconnect /\ (game_started \/ P(Actor).slot_idx = None)) =>
              /\ slots' = slots
              /\ \A u \in DOMAIN players : Same3(players[u], players'[u])
       /\ (IsDisconnect /\ ~game_started /\ P(Actor).slot_idx # None) =>
              /\ slots' = Pop(slots, P(Actor).slot_idx)
              /\ ~players'[uid[Actor]].in_game_area
              /\ ~players'[uid[Actor]].in_watch_area]_vars

\* after start, an identity whose earlier connection was closed has come
\* back and still has its slot and its place in the game area
C6_Witness ==
    /\ game_started
    /\ ev.op = "open"
    /\ LET u == conn_uid[ev.conn]
       IN /\ players[u].slot_idx # None
          /\ players[u].in_game_area
          /\ \E d \in Conns \ {ev.conn} : conn_uid[d] = u /\ pc[d] = "closed"

OpenSequence == <<"ASSIGN_ID", "CONNECTED", "SLOTS">>

\* C7: on a handle being opened, the messages delivered are ASSIGN_ID, then
\* CONNECTED, then a SLOTS listing, with no other handler's message before
\* ASSIGN_ID or between ASSIGN_ID and CONNECTED.
C7_OpenSequenceInOrder ==
    \A h \in Conns :
        /\ Len(hist[h]) <= 3
        /\ \A i \in 1..Len(hist[h]) :
              /\ hist[h][i].type = OpenSequence[i]
              /\ i <= 2 => hist[h][i].own

LockedPcs == {"assigned", "notify", "unlock", "return"}

\* C8: every write to the registry, the slot table or game_started is made by
\* a handler that holds the lock, at most one handler holds it, and a
\* broadcast that belongs to a mutation is issued before the lock is left.
C8_WritesUnderLock ==
    /\ [](\A c \in Conns : pc[c] \in LockedPcs <=> lock = c)
    /\ [][/\ (players' # players \/ slots' # slots \/ game_started' # game_started) =>
               /\ lock = NoConn
               /\ lock' \in {NoConn, Actor}
          /\ (ev'.kind = "broadcast" /\ ev'.op # "listing") => lock' = Actor]_vars

\* a handler holds the lock after its broadcast while the handler of a closed
\* connection waits to run its disconnect handling
C8_Witness ==
    /\ lock # NoConn
    /\ ev.kind = "broadcast"
    /\ ev.conn = lock
    /\ \E d \in Conns \ {lock} : pc[d] = "recv" /\ ~open[d]

\* the step releases a slot before start
IsRelease ==
    /\ ~game_started
    /\ ev'.op \in {"LEAVE_GAME", "disconnect"}
    /\ P(Actor).slot_idx # None
    /\ ev'.op = "LEAVE_GAME" => P(Actor).in_game_area

\* C9: a slot release before start broadcasts, under the lock, one SLOTS
\* message that lists (label i+1 "P", slots[i]) for the slot table as it is
\* after the removal and renumbering.
C9_ReleaseBroadcastsNewTable ==
    [][IsRelease =>
          /\ ev'.kind = "broadcast"
          /\ ev'.msg.type = "SLOTS"
          /\ Len(ev'.msg.slots_info) = Len(slots')
          /\ \A i \in 1..Len(slots') :
                /\ ev'.msg.slots_info[i].slot = [n |-> i, suffix |-> "P"]
                /\ ev'.msg.slots_info[i].uid = slots'[i]
          /\ ev'.to = Recipients(players')
          /\ lock' = Actor]_vars

\* a release that left a player in the table was broadcast to two handles
C9_Witness ==
    /\ ~game_started
    /\ ev.op = "LEAVE_GAME"
    /\ ev.msg.type = "SLOTS"
    /\ Len(ev.msg.slots_info) >= 1
    /\ Cardinality(ev.to) >= 2

\* the start condition, for the identity acknowledged to the connection
RequesterMayStart(c) ==
    /\ players[conn_uid[c]].slot_idx = 0
    /\ players[conn_uid[c]].in_game_area
    /\ ~game_started

\* C10: a START whose requester does not satisfy the start condition changes
\* nothing and sends START_DENIED to the requesting connection only.
C10_DeniedStartChangesNothing ==
    [][(ev'.op = "START" /\ ~RequesterMayStart(Actor)) =>
          /\ players' = players
          /\ slots' = slots
          /\ game_started' = game_started
          /\ ev'.msg.type = "START_DENIED"
          /\ ev'.to = {Actor}]_vars

\* C11: after start the slot table never grows, and an ENTER_GAME from a
\* requester whose record has no slot is answered ONLY_SPECTATOR to the
\* requester, with in_game_area false, in_watch_area true, slots unchanged.
C11_NoNewSlotAfterStart ==
    [][game_started =>
          /\ Len(slots') <= Len(slots)
          /\ (ev'.op = "ENTER_GAME" /\ players[conn_uid[Actor]].slot_idx = None) =>
                /\ ev'.msg.type = "ONLY_SPECTATOR"
                /\ ev'.to = {Actor}
                /\ ~players'[conn_uid[Actor]].in_game_area
                /\ players'[conn_uid[Actor]].in_watch_area
                /\ slots' = slots]_vars

\* the positions of the slot table that hold identity u
PositionsOf(u) == {i \in 1..Len(slots) : slots[i] = u}

\* C12: after start, an identity at position k of the slot table that sends
\* ENTER_GAME is answered JOINED with label k+1 "P", its in_game_area becomes
\* true, and the slot table is unchanged.
C12_SlotHolderRejoins ==
    [][(game_started /\ ev'.op = "ENTER_GAME" /\ PositionsOf(conn_uid[Actor]) # {}) =>
          /\ ev'.msg.type = "JOINED"
          /\ \E k \in PositionsOf(conn_uid[Actor]) : ev'.msg.slot = [n |-> k, suffix |-> "P"]
          /\ ev'.to = {Actor}
          /\ players'[conn_uid[Actor]].in_game_area
          /\ slots' = slots]_vars

\* the step is a broadcast in which the send to some recipient fails
BroadcastWithFailedSend == ev'.kind = "broadcast" /\ \E h \in ev'.to : ~open[h]

\* C13: a failed send during a broadcast raises nothing to the caller, leaves
\* the failing recipient's connected flag and handle as they were, and every
\* record that is connected with a handle is still sent the message.
C13_FailedSendIsSwallowed ==
    [][BroadcastWithFailedSend =>
          /\ pc'[Actor] \in {"recv", "unlock", "return"}
          /\ \A u \in DOMAIN players' :
                (players'[u].ws # NoConn /\ players'[u].connected) => players'[u].ws \in ev'.to
          /\ \A u \in DOMAIN players :
                (players'[u].ws \in ev'.to /\ ~open[players'[u].ws]) =>
                    /\ players'[u].ws = players[u].ws
                    /\ players'[u].connected = players[u].connected
                    /\ players'[u].connected]_vars

\* a broadcast reached a closed handle and an open one; the record of the
\* closed handle is still connected
C13_Witness ==
    /\ ev.kind = "broadcast"
    /\ ev.op # "listing"
    /\ \E h \in ev.to : ~open[h]
    /\ \E h \in ev.to : open[h]
    /\ pc[ev.conn] \in {"unlock", "return"}
    /\ \A h \in ev.to : \E u \in DOMAIN players : players[u].ws = h /\ players[u].connected

\* C14: whenever no handler holds the lock, a record with slot_idx = k has k
\* a valid index of the slot table with slots[k] its identity, and a record
\* whose identity is not in the slot table has slot_idx = None.
C14_SlotIndexPointsAtIdentity ==
    lock = NoConn =>
        \A u \in DOMAIN players :
            /\ players[u].slot_idx # None =>
                  /\ players[u].slot_idx >= 0
                  /\ players[u].slot_idx < Len(slots)
                  /\ slots[players[u].slot_idx + 1] = u
            /\ PositionsOf(u) = {} => players[u].slot_idx = None

\* after a release that renumbered a remaining player to index 0, the one
\* that left has no slot index and is not in the table
C14_Witness ==
    /\ lock = NoConn
    /\ Len(slots) >= 1
    /\ players[slots[1]].slot_idx = 0
    /\ \E c \in Conns :
          /\ conn_uid[c] # NoUid
          /\ uid[c] # conn_uid[c]
          /\ players[conn_uid[c]].slot_idx = None
          /\ PositionsOf(conn_uid[c]) = {}

RequestOps == {"PING", "ENTER_SPECTATE", "ENTER_GAME", "LEAVE_GAME", "START", "OTHER"}

\* C15: every request of a connection, and its disconnect handling, reads
\* and modifies the record of the identity acknowledged to that connection
\* (PING and unknown requests use no record); of other records it may change
\* only slot_idx, by renumbering before start.
C15_HandlerAddressesOwnRecord ==
    [][(ev'.op \in RequestOps \cup {"disconnect"}) =>
          /\ ev'.op \notin {"PING", "OTHER"} => uid[Actor] = conn_uid[Actor]
          /\ \A u \in DOMAIN players \ {conn_uid[Actor]} :
                /\ players'[u] = [players[u] EXCEPT !.slot_idx = players'[u].slot_idx]
                /\ players'[u].slot_idx # players[u].slot_idx => ~game_started]_vars

\* C16: no identity appears more than once in the slot table.
C16_NoDuplicateSlots ==
    \A i \in 1..Len(slots) : \A j \in 1..Len(slots) : i # j => slots[i] # slots[j]

\* the step is the disconnect handling of a connection whose identity was
\* resolved by a newer connection while it was open, and is held by one now
IsSupersededDisconnect ==
    /\ ev'.op = "disconnect"
    /\ Actor \in taken_over
    /\ players[conn_uid[Actor]].ws \in Conns \ {Actor}
    /\ conn_uid[players[conn_uid[Actor]].ws] = conn_uid[Actor]
    /\ players[conn_uid[Actor]].connected

\* C17: when an identity has opened a second connection, the closing of the
\* earlier one leaves its record as it was: connected, with the newer
\* connection as handle, and the slot table unchanged.
C17_OldConnectionCloseIsHarmless ==
    [][IsSupersededDisconnect =>
          /\ players'[conn_uid[Actor]] = players[conn_uid[Actor]]
          /\ slots' = slots]_vars

\* C18: whenever no handler holds the lock, a player record has a connection
\* handle exactly when its connected flag is true.
C18_HandleIffConnected ==
    lock = NoConn =>
        \A u \in DOMAIN players : (players[u].ws # NoConn) <=> players[u].connected

\* one record was unplugged by the disconnect handling of its connection while
\* another record is connected through an open connection
C18_Witness ==
    /\ lock = NoConn
    /\ \E c, d \in Conns :
          /\ pc[c] = "closed" /\ conn_uid[c] # NoUid /\ conn_uid[d] # NoUid
          /\ conn_uid[c] # conn_uid[d]
          /\ ~players[conn_uid[c]].connected /\ players[conn_uid[c]].ws = NoConn
          /\ players[conn_uid[d]].connected /\ players[conn_uid[d]].ws = d /\ open[d]

\* the slot table without the entries of the identity
Without(s, u) == SelectSeq(s, LAMBDA x : x # u)

\* C19: a slot release before start by identity U (LEAVE_GAME in the game area
\* with a slot, or disconnection with a slot) leaves U out of the slot table
\* with slot_idx None, keeps the other identities in their relative order,
\* lowers by one the slot_idx of each identity that was after U's position and
\* leaves the slot_idx of each identity before it unchanged.
C19_ReleaseRemovesAndRenumbers ==
    [][(IsRelease /\ players[conn_uid[Actor]].slot_idx # None) =>
          LET U == conn_uid[Actor]
              k == players[U].slot_idx
          IN  /\ \A i \in 1..Len(slots') : slots'[i] # U
              /\ players'[U].slot_idx = None
              /\ slots' = Without(slots, U)
              /\ \A i \in 1..Len(slots) :
                    slots[i] # U =>
                       players'[slots[i]].slot_idx =
                          IF i - 1 > k
                          THEN players[slots[i]].slot_idx - 1
                          ELSE players[slots[i]].slot_idx]_vars

\* the handler of the connection is inside its receive loop
InReceiveLoop(d) == pc[d] \in {"recv", "notify", "unlock"}

\* no later connection resolved to the identity of the connection
MostRecent(d) == \A e \in Conns : e > d => conn_uid[e] # conn_uid[d]

\* C20: every broadcast reaches every identity whose most recent connection is
\* open with its receive loop running, an identity that sent LEAVE_GAME after
\* the start and is still connected included.
C20_BroadcastReachesEveryOpenIdentity ==
    [][ev'.kind = "broadcast" =>
          \A d \in Conns :
             (open[d] /\ InReceiveLoop(d) /\ MostRecent(d)) => d \in ev'.to]_vars

====
